---- MODULE Spec2Model ----
(***************************************************************************)
(* Bit-banged SPI bus of soft-spi: the full-duplex engine                  *)
(* (src/src/full_duplex.rs) and the half-duplex engine                     *)
(* (src/src/half_duplex.rs), modelled one pin operation per step.          *)
(*                                                                         *)
(* A level is a BOOLEAN, TRUE = high.  A buffer is a sequence of bytes     *)
(* 0..255.  Loop indices `bytes` and `bits` are the Rust loop variables    *)
(* (0-based); sequences are 1-based, so words[bytes] of the source is      *)
(* words[bytes + 1] here.                                                  *)
(***************************************************************************)
EXTENDS Integers, Sequences, FiniteSets, TLC

\* Longest buffer passed to an operation when the pins work.
MaxLen == 2
\* Longest buffer passed to an operation on a platform whose pins may fail.
MaxFaultLen == 1

\* u8 arithmetic of the source.
Width == 8
Mask == 128
Modulus == 256

Engines == {"full", "half"}
\* Bytes a caller puts in a buffer that is sent, and in one that is received into.
WBytes == {0, 128, 165, 255}
RBytes == {0, 255}
\* Data-in streams a slave presents, one result of is_high() per clock pulse.
Streams == {"ramp", "c4", "err"}

VARIABLES
    engine,     \* which SoftSpi this is: "full" or "half"
    faulty,     \* whether the platform's output pins can fail (Err) when driven
    sck,        \* level of the clock pin
    mosi,       \* level of the data-out pin (full-duplex)
    sda,        \* level the bus drives on the shared data pin (half-duplex)
    pc,         \* "start" (before new), "idle", "pre", "loop", "aborted"
    op,         \* the operation running, or the last one that returned
    words,      \* the &mut [u8] argument (read's, transfer's read, transfer_in_place's)
    write,      \* the &[u8] argument (write's words, transfer's write)
    orig,       \* contents of the &mut [u8] argument when the call started
    origWrite,  \* contents of the &[u8] argument when the call started
    bytes,      \* outer loop variable
    bits,       \* inner loop variable
    ip,         \* next statement of the loop body (index into the body's pin operations)
    read_byte,  \* transfer_in_place's accumulator
    result,     \* "none" while running, "Ok" on return, "panic" on abort
    din,        \* what the slave presents on data-in during this call
    log,        \* pin operations called since the call started, in order
    slaveRec,   \* loopback slave: data-out levels latched at the rising edges of a write
    held,       \* <<buffer>> a transfer_in_place against the echoing slave left in the
                \* caller's storage, while the next call is applied to it; else <<>>
    left        \* level the last returned operation that drives data-out left on it:
                \* "H", "L", or "any" when none has driven it (or pins may fail)

vars == <<engine, faulty, sck, mosi, sda, pc, op, words, write, orig, origWrite, bytes,
          bits, ip, read_byte, result, din, log, slaveRec, held, left>>

----------------------------------------------------------------------------
(* u8 arithmetic *)

\* Variant: the shift on an unbounded integer, no bit discarded.
Shl8Wide(x, k) == x * (2 ^ k)
\* x << k on a u8, k < 8: the bits shifted out of the top are discarded.
Shl8(x, k) == (x * (2 ^ k)) % Modulus

\* Variant: the mask one bit too low, x & 0x40.
And40(x) == IF (x \div 64) % 2 = 1 THEN 64 ELSE 0
\* x & 0x80 on a u8.
And80(x) == IF (x \div Mask) % 2 = 1 THEN Mask ELSE 0

\* Variant: the bits taken from the low end, (words[bytes] >> bits) & 1.
OutBitLsbFirst(w, k) == (w \div (2 ^ k)) % 2 = 1
\* let bit = (words[bytes] << bits) & 0x80; ... (bit != 0).into()
OutBit(w, k) == And80(Shl8(w, k)) /= 0

\* words[bytes] <<= 1
Shifted(b) == Shl8(b, 1)

\* words[bytes] += 1 (checked u8 addition: over 255 it panics in a debug build)
AddOverflows(b) == b + 1 >= Modulus
AddOne(b) == (b + 1) % Modulus

\* Variant: a failed is_high() counted as high, is_high().unwrap_or(true).
IsHighUnlessLow(r) == r # "L"
\* Some(true) == pin.is_high().ok()
IsHigh(r) == r = "H"

\* Variant: the byte filled from the top, words[bytes] >>= 1 and the sample into bit 7.
AccumulateLsbFirst(b, r) == (b \div 2) + (IF IsHigh(r) THEN Mask ELSE 0)
\* words[bytes] <<= 1; if Some(true) == is_high().ok() { words[bytes] += 1 }
Accumulate(b, r) == IF IsHigh(r) THEN AddOne(Shifted(b)) ELSE Shifted(b)

----------------------------------------------------------------------------
(* The loop bodies: the pin operations of one bit, in program order *)

\* Variant: the pulse as its comment words it ("Clock high then low").
ReadStepsHighThenLow == <<"sck_high", "sck_low", "sample">>
ReadStepsDriving == <<"set_high", "sck_low", "sck_high", "sample">>
ReadSteps == <<"sck_low", "sck_high", "sample">>
\* Variant: the bit driven after its pulse instead of before it.
WriteStepsDriveLast == <<"sck_low", "sck_high", "set_state">>
WriteSteps == <<"set_state", "sck_low", "sck_high">>
\* Variant: data-in sampled before the pulse instead of after it.
TransferStepsSampleFirst == <<"set_state", "sample", "sck_low", "sck_high">>
TransferSteps == <<"set_state", "sck_low", "sck_high", "sample">>
\* Variant: data-in sampled between the two drives of data-out.
TransferInPlaceStepsSampleEarly ==
    <<"set_high", "sample", "set_state", "sck_low", "sck_high">>
TransferInPlaceStepsDriveInPulse ==
    <<"set_high", "sck_low", "set_state", "sck_high", "sample">>
TransferInPlaceSteps == <<"set_high", "set_state", "sck_low", "sck_high", "sample">>
HalfReadStepsDriveEachBit == <<"set_high", "sck_low", "sck_high", "sample">>
HalfReadSteps == <<"sck_low", "sck_high", "sample">>
HalfWriteStepsRelease == <<"set_state", "sck_low", "sck_high", "set_high">>
HalfWriteSteps == <<"set_state", "sck_low", "sck_high">>

BitSteps(e, o) ==
    CASE o = "read" -> IF e = "full" THEN ReadSteps ELSE HalfReadSteps
      [] o = "write" -> IF e = "full" THEN WriteSteps ELSE HalfWriteSteps
      [] o = "transfer" -> TransferSteps
      [] o = "transfer_in_place" -> TransferInPlaceSteps
      [] OTHER -> <<>>

\* Number of words an operation's outer loop runs over.
FullLoopLen(o, r, w) ==
    CASE o = "read" -> Len(r)
      [] o = "write" -> Len(w)
      [] o = "transfer" -> Len(r)
      [] o = "transfer_in_place" -> Len(r)
      [] OTHER -> 0
\* Variant: the half-duplex transfer and transfer_in_place looping like the full-duplex ones.
HalfLoopLenAsFull(o, r, w) == FullLoopLen(o, r, w)
HalfLoopLen(o, r, w) ==
    CASE o = "read" -> Len(r)
      [] o = "write" -> Len(w)
      [] OTHER -> 0
LoopLen == IF engine = "full" THEN FullLoopLen(op, words, write)
           ELSE HalfLoopLen(op, words, write)

\* let mut read_byte = 0 as u8; ... words[bytes] = read_byte; only transfer_in_place
\* accumulates into a local and stores it after the word's 8 bits.
\* Variant: transfer_in_place accumulating straight into words[bytes], as transfer does.
UsesReadByteNever(o) == FALSE
UsesReadByte(o) == o = "transfer_in_place"

\* Variant: no length assertion.
TransferAssertsNothing(r, w) == TRUE
\* assert_eq!(read.len(), write.len(), ...)
TransferAsserts(r, w) == Len(r) = Len(w)

CurStep == IF pc = "loop" /\ bytes < LoopLen THEN BitSteps(engine, op)[ip] ELSE "none"

\* Number of the clock pulse the loop is at, counted from 0 over the call.
Pulse == Width * bytes + bits

----------------------------------------------------------------------------
(* The environment: pins and slave *)

\* An output pin driven to level v: the drive takes effect unless the pin fails.
Driven(old, v, ok) == IF ok THEN v ELSE old
OkSet == IF faulty THEN BOOLEAN ELSE {TRUE}

DataOut == IF engine = "full" THEN mosi ELSE sda

\* What is_high() returns at clock pulse p under stream d: "H", "L" or "E" (Err).
StreamLevel(d, p) ==
    CASE d = "ramp" -> IF (p \div Width) % 2 = 1 THEN "H" ELSE "L"
      [] d = "c4" -> IF p % Width \in {0, 1, 5} THEN "H" ELSE "L"
      [] d = "err" -> IF p % Width \in {2, 7} THEN "E" ELSE "H"
      [] OTHER -> "L"

SampleResult ==
    CASE din = "echo" -> IF DataOut THEN "H" ELSE "L"
      [] din = "replay" -> IF Pulse < Len(slaveRec) /\ slaveRec[Pulse + 1]
                           THEN "H" ELSE "L"
      [] OTHER -> StreamLevel(din, Pulse)

Bufs(S, n) == UNION {[1..k -> S] : k \in 0..n}
LenBound == IF faulty THEN MaxFaultLen ELSE MaxLen
DinModes == IF faulty THEN Streams
            ELSE IF engine = "full" THEN Streams \cup {"echo"} ELSE Streams

----------------------------------------------------------------------------
Init ==
    /\ engine \in Engines
    /\ faulty \in BOOLEAN
    /\ sck \in BOOLEAN
    /\ mosi \in (IF engine = "full" THEN BOOLEAN ELSE {FALSE})
    /\ sda \in (IF engine = "half" THEN BOOLEAN ELSE {FALSE})
    /\ pc = "start"
    /\ op = "none"
    /\ words = <<>>
    /\ write = <<>>
    /\ orig = <<>>
    /\ origWrite = <<>>
    /\ bytes = 0
    /\ bits = 0
    /\ ip = 1
    /\ read_byte = 0
    /\ result = "none"
    /\ din = "none"
    /\ log = <<>>
    /\ slaveRec = <<>>
    /\ held = <<>>
    /\ left = "any"

\* SoftSpi::new: let _ = this.sck.set_high();
New ==
    /\ pc = "start"
    /\ \E ok \in OkSet : sck' = Driven(sck, TRUE, ok)
    /\ pc' = "idle"
    /\ op' = "new"
    /\ result' = "Ok"
    /\ UNCHANGED <<engine, faulty, mosi, sda, words, write, orig, origWrite, bytes, bits,
                   ip, read_byte, din, log, slaveRec, held, left>>

\* Bit j of byte w, j = 0 the least significant.
BitOfByte(w, j) == (w \div (2 ^ j)) % 2 = 1

\* The calls expected to drive data-out: a write, full-duplex transfer or
\* transfer_in_place of at least one word, and every half-duplex read.
Sends(o, r, w) ==
    \/ o = "write" /\ w # <<>>
    \/ o = "transfer" /\ engine = "full" /\ w # <<>> /\ Len(r) = Len(w)
    \/ o = "transfer_in_place" /\ engine = "full" /\ r # <<>>
    \/ o = "read" /\ engine = "half"

\* What every call does on entry: fresh loop variables, an empty log; the level
\* expected on data-out is open while a call that drives it runs.
Enter(o, r, w, d) ==
    /\ pc = "idle"
    /\ op' = o
    /\ words' = r
    /\ orig' = r
    /\ write' = w
    /\ origWrite' = w
    /\ din' = d
    /\ bytes' = 0
    /\ bits' = 0
    /\ ip' = 1
    /\ read_byte' = 0
    /\ log' = <<>>
    /\ left' = IF Sends(o, r, w) THEN "any" ELSE left
    /\ UNCHANGED <<engine, faulty, sck, mosi, sda>>

\* The loopback slave replays only right after a write of the same length.
CanReplay(r) == ~faulty /\ op = "write" /\ Len(r) = Len(write)

\* The caller reads back, into storage of the same length, what it has just written.
ReadsBack(r, d) == d \in {"replay", "echo"} /\ CanReplay(r)

\* Variant: the half-duplex read going straight to its loop, sda not driven high.
ReadEntryNoRelease(e) == "loop"
\* Where read starts: the half-duplex one at self.sda.set_high().ok(), the
\* full-duplex one at its loop.
ReadEntry(e) == IF e = "half" THEN "pre" ELSE "loop"

\* fn read(&mut self, words: &mut [u8]); the half-duplex read first drives sda high.
CallRead ==
    /\ pc = "idle"
    /\ \E r \in Bufs(RBytes, LenBound), d \in DinModes \cup {"replay"} :
        /\ d = "replay" => CanReplay(r)
        /\ Enter("read", r, IF ReadsBack(r, d) THEN write ELSE <<>>, d)
        /\ slaveRec' = IF d = "replay" THEN slaveRec ELSE <<>>
        /\ held' = <<>>
        /\ pc' = ReadEntry(engine)
        /\ result' = "none"

\* fn write(&mut self, words: &[u8])
CallWrite ==
    /\ pc = "idle"
    /\ \E w \in Bufs(WBytes, LenBound) :
        /\ Enter("write", <<>>, w, "none")
        /\ slaveRec' = <<>>
        /\ held' = <<>>
        /\ pc' = "loop"
        /\ result' = "none"

\* fn transfer(&mut self, read: &mut [u8], write: &[u8]); the full-duplex one
\* asserts equal lengths first, the half-duplex one has an empty body.
CallTransfer ==
    /\ pc = "idle"
    /\ \E r \in Bufs(RBytes, LenBound), w \in Bufs(WBytes, LenBound), d \in DinModes :
        /\ Enter("transfer", r, w, d)
        /\ slaveRec' = <<>>
        /\ held' = <<>>
        /\ pc' = IF engine = "full" /\ ~TransferAsserts(r, w) THEN "aborted" ELSE "loop"
        /\ result' = IF engine = "full" /\ ~TransferAsserts(r, w) THEN "panic" ELSE "none"

\* fn transfer_in_place(&mut self, words: &mut [u8])
CallTransferInPlace ==
    /\ pc = "idle"
    /\ \E r \in Bufs(WBytes, LenBound), d \in DinModes :
        /\ Enter("transfer_in_place", r, <<>>, d)
        /\ slaveRec' = <<>>
        /\ held' = IF d = "echo" /\ held = <<r>> THEN held ELSE <<>>
        /\ pc' = "loop"
        /\ result' = "none"

\* fn flush(&mut self)
CallFlush ==
    /\ Enter("flush", <<>>, <<>>, "none")
    /\ slaveRec' = <<>>
    /\ held' = <<>>
    /\ pc' = "loop"
    /\ result' = "none"

\* The outer loop has run over all its words: the next statement is Ok(()).
Done == pc = "loop" /\ bytes >= LoopLen

\* The level the operation at its return is expected to leave on data-out: that of
\* the last bit of the last word sent, high after a half-duplex read, and what was
\* there before after an operation that sends nothing.
LevelName(v) == IF v THEN "H" ELSE "L"
LeftBy ==
    CASE ~Sends(op, orig, origWrite) -> left
      [] op = "read" -> "H"
      [] op = "transfer_in_place" -> LevelName(BitOfByte(orig[Len(orig)], 0))
      [] OTHER -> LevelName(BitOfByte(origWrite[Len(origWrite)], 0))

\* Ok(()): the call returns and its borrows of the caller's buffers end.  The
\* caller of a write keeps what it wrote, to compare with what it reads back.
Return ==
    /\ Done
    /\ pc' = "idle"
    /\ result' = "Ok"
    /\ words' = <<>>
    /\ orig' = <<>>
    /\ write' = IF op = "write" THEN write ELSE <<>>
    /\ origWrite' = IF op = "write" THEN origWrite ELSE <<>>
    /\ din' = "none"
    /\ log' = <<>>
    /\ bytes' = 0
    /\ bits' = 0
    /\ held' = IF op = "transfer_in_place" /\ din = "echo" THEN <<words>> ELSE <<>>
    /\ left' = IF faulty THEN "any" ELSE LeftBy
    /\ UNCHANGED <<engine, faulty, sck, mosi, sda, op, ip, read_byte, slaveRec>>

\* Move to the next statement of the loop body, the next bit, the next word.
Advance ==
    LET n == Len(BitSteps(engine, op)) IN
    /\ ip' = IF ip < n THEN ip + 1 ELSE 1
    /\ bits' = IF ip < n THEN bits ELSE (bits + 1) % Width
    /\ bytes' = IF ip = n /\ bits = Width - 1 THEN bytes + 1 ELSE bytes

\* Variant: `?` in place of `.ok();`, the pin's error returned to the caller.
Propagated(ok) == FALSE
\* `.ok();` after a pin operation: its Result is discarded and the loop goes on.
Ignored(ok) == TRUE

\* Where the call stands after a pin operation that returned Ok (ok) or Err: next
\* is the statement at `to`, unless the Result were propagated to the caller.
AfterPin(ok, to) ==
    /\ pc' = IF Ignored(ok) \/ ok THEN to ELSE "idle"
    /\ result' = IF Ignored(ok) \/ ok THEN result ELSE "Err"

DriveData(v, ok) ==
    /\ mosi' = IF engine = "full" THEN Driven(mosi, v, ok) ELSE mosi
    /\ sda' = IF engine = "half" THEN Driven(sda, v, ok) ELSE sda

\* self.sda.set_high().ok(); at the top of the half-duplex read
ReadSetHigh ==
    /\ pc = "pre"
    /\ \E ok \in OkSet : DriveData(TRUE, ok) /\ AfterPin(ok, "loop")
    /\ log' = Append(log, "data_high")
    /\ UNCHANGED <<engine, faulty, sck, op, words, write, orig, origWrite, bytes, bits,
                   ip, read_byte, din, slaveRec, held, left>>

\* self.sck.set_low().ok();
SckLow ==
    /\ CurStep = "sck_low"
    /\ \E ok \in OkSet : sck' = Driven(sck, FALSE, ok) /\ AfterPin(ok, pc)
    /\ log' = Append(log, "sck_low")
    /\ Advance
    /\ UNCHANGED <<engine, faulty, mosi, sda, op, words, write, orig, origWrite,
                   read_byte, din, slaveRec, held, left>>

\* self.sck.set_high().ok(); the loopback slave latches data-out on a rising edge
\* of a write.
SckHigh ==
    /\ CurStep = "sck_high"
    /\ \E ok \in OkSet : sck' = Driven(sck, TRUE, ok) /\ AfterPin(ok, pc)
    /\ log' = Append(log, "sck_high")
    /\ slaveRec' = IF op = "write" /\ ~faulty /\ ~sck /\ sck'
                   THEN Append(slaveRec, DataOut) ELSE slaveRec
    /\ Advance
    /\ UNCHANGED <<engine, faulty, mosi, sda, op, words, write, orig, origWrite,
                   read_byte, din, held, left>>

\* let bit = (words[bytes] << bits) & 0x80; self.mosi.set_state((bit != 0).into()).ok();
SetState ==
    /\ CurStep = "set_state"
    /\ LET src == IF op = "transfer_in_place" THEN words ELSE write
           v == OutBit(src[bytes + 1], bits)
       IN /\ \E ok \in OkSet : DriveData(v, ok) /\ AfterPin(ok, pc)
          /\ log' = Append(log, IF v THEN "data_1" ELSE "data_0")
    /\ Advance
    /\ UNCHANGED <<engine, faulty, sck, op, words, write, orig, origWrite, read_byte,
                   din, slaveRec, held, left>>

\* self.mosi.set_high().ok(); in transfer_in_place
SetHigh ==
    /\ CurStep = "set_high"
    /\ \E ok \in OkSet : DriveData(TRUE, ok) /\ AfterPin(ok, pc)
    /\ log' = Append(log, "data_high")
    /\ Advance
    /\ UNCHANGED <<engine, faulty, sck, op, words, write, orig, origWrite, read_byte,
                   din, slaveRec, held, left>>

\* The shift-accumulate after the pulse: into words[bytes] (read, transfer) or into
\* read_byte (transfer_in_place), which is stored to words[bytes] after its 8th bit.
Sample ==
    /\ CurStep = "sample"
    /\ LET r == SampleResult
           inPlace == UsesReadByte(op)
           b == IF inPlace THEN read_byte ELSE words[bytes + 1]
           overflow == IsHigh(r) /\ AddOverflows(Shifted(b))
           acc == Accumulate(b, r)
       IN /\ log' = Append(log, "in_" \o r)
          /\ pc' = IF overflow THEN "aborted" ELSE pc
          /\ result' = IF overflow THEN "panic" ELSE result
          /\ read_byte' = IF inPlace /\ bits < Width - 1 THEN acc ELSE 0
          /\ words' = IF inPlace /\ bits < Width - 1 THEN words
                      ELSE [words EXCEPT ![bytes + 1] = acc]
    /\ Advance
    /\ UNCHANGED <<engine, faulty, sck, mosi, sda, op, write, orig, origWrite, din,
                   slaveRec, held, left>>

Next ==
    \/ New
    \/ CallRead
    \/ CallWrite
    \/ CallTransfer
    \/ CallTransferInPlace
    \/ CallFlush
    \/ ReadSetHigh
    \/ SckLow
    \/ SckHigh
    \/ SetState
    \/ SetHigh
    \/ Sample
    \/ Return

Spec == Init /\ [][Next]_vars

----------------------------------------------------------------------------
(* Properties *)

\* The operations of the bus that run a bit loop.
BusOps == {"read", "write", "transfer", "transfer_in_place"}

DataEntry(v) == IF v THEN "data_1" ELSE "data_0"
SampleEntries == {"in_H", "in_L", "in_E"}

\* Bit of a buffer sent at clock pulse p, most significant bit of each word first.
MsbFirstBit(buf, p) == BitOfByte(buf[(p \div 8) + 1], 7 - (p % 8))

\* The received byte w is made, most significant bit first, of the 8 samples logged
\* for word i, the sample of pulse p being log entry at(p).
MadeOfSamples(w, i, at(_)) ==
    \A k \in 0..7 : BitOfByte(w, 7 - k) = (log[at(8 * i + k)] = "in_H")

\* C2: write sends each word most significant bit first: the calls made are, for
\* word i and bit k in order, set_state(bit 7-k of words[i]), set_low, set_high,
\* and nothing else (no is_high); on working pins data-out is at that bit's level
\* from the drive to the rising edge; words is not modified.
C2_WriteOpAt(j) ==
    LET m == (j - 1) % 3 IN
    CASE m = 0 -> DataEntry(MsbFirstBit(origWrite, (j - 1) \div 3))
      [] m = 1 -> "sck_low"
      [] OTHER -> "sck_high"
C2_WriteMsbFirst ==
    (op = "write" /\ pc = "loop") =>
        /\ write = origWrite
        /\ Len(log) = 3 * Pulse + (ip - 1)
        /\ \A j \in 1..Len(log) : log[j] = C2_WriteOpAt(j)
        /\ (Done => Len(log) = 24 * Len(origWrite))
        /\ (~faulty /\ ~Done /\ ip \in {2, 3}
               => DataOut = BitOfByte(origWrite[bytes + 1], 7 - bits))

\* A write of [0xA5, 0x80] has run to its end on working pins.
C2_Witness ==
    /\ ~faulty /\ Done /\ op = "write" /\ write = <<165, 128>>
    /\ Len(log) = 48 /\ ~DataOut

\* C3: read receives each word most significant bit first: each pulse is set_low,
\* set_high, then one is_high; once word i is complete its bit 7-k is 1 exactly when
\* the sample of pulse 8i+k was high, whatever the word held before; the stream
\* 0x00 then 0xFF gives [0x00, 0xFF].
C3_Off == IF engine = "half" THEN 1 ELSE 0
C3_SampleAt(p) == C3_Off + 3 * p + 3
C3_ReadMsbFirst ==
    (op = "read" /\ pc = "loop") =>
        /\ Len(log) = C3_Off + 3 * Pulse + (ip - 1)
        /\ \A p \in 0..(Pulse - 1) :
              /\ log[C3_SampleAt(p) - 2] = "sck_low"
              /\ log[C3_SampleAt(p) - 1] = "sck_high"
              /\ log[C3_SampleAt(p)] \in SampleEntries
        /\ \A i \in 0..(bytes - 1) : MadeOfSamples(words[i + 1], i, C3_SampleAt)
        /\ \A i \in (bytes + 2)..Len(words) : words[i] = orig[i]
        /\ (Done /\ din = "ramp" /\ Len(words) = 2 => words = <<0, 255>>)

\* A read into [0xFF, 0x00] of the stream 0x00 then 0xFF has run to its end.
C3_Witness ==
    /\ Done /\ op = "read" /\ din = "ramp" /\ orig = <<255, 0>> /\ words = <<0, 255>>

\* C4: full-duplex transfer over equal lengths: per bit, set_state(bit 7-k of
\* write[i]), set_low, set_high, is_high, in that order; once word i is complete
\* bit 7-k of read[i] is the sample of pulse 8i+k, whatever read held before;
\* write is not modified.
C4_SampleAt(p) == 4 * p + 4
C4_Transfer ==
    (engine = "full" /\ op = "transfer" /\ pc = "loop") =>
        /\ write = origWrite
        /\ Len(words) = Len(write)
        /\ Len(log) = 4 * Pulse + (ip - 1)
        /\ \A p \in 0..(Pulse - 1) :
              /\ log[C4_SampleAt(p) - 3] = DataEntry(MsbFirstBit(origWrite, p))
              /\ log[C4_SampleAt(p) - 2] = "sck_low"
              /\ log[C4_SampleAt(p) - 1] = "sck_high"
              /\ log[C4_SampleAt(p)] \in SampleEntries
        /\ \A i \in 0..(bytes - 1) : MadeOfSamples(words[i + 1], i, C4_SampleAt)
        /\ (~faulty /\ ~Done /\ ip \in {2, 3, 4}
               => DataOut = BitOfByte(origWrite[bytes + 1], 7 - bits))

\* A transfer of [0x80, 0xA5] against the stream 0xC4, 0xC4 has run to its end.
C4_Witness ==
    /\ engine = "full" /\ Done /\ op = "transfer" /\ din = "c4"
    /\ write = <<128, 165>> /\ orig = <<255, 0>> /\ words = <<196, 196>>

\* C5: full-duplex transfer_in_place: every set_state of word i carries a bit of
\* the value words[i] had when the call started, in order 7..0, whatever is sampled;
\* words[i] keeps that value until its 8th sample, and then holds the received
\* byte; the words after it are untouched.
C5_SampleAt(p) == 5 * p + 5
C5_TransferInPlace ==
    (engine = "full" /\ op = "transfer_in_place" /\ pc = "loop") =>
        /\ Len(log) = 5 * Pulse + (ip - 1)
        /\ \A j \in 1..Len(log) :
              (j - 1) % 5 = 1 => log[j] = DataEntry(MsbFirstBit(orig, (j - 1) \div 5))
        /\ \A i \in (bytes + 1)..Len(words) : words[i] = orig[i]
        /\ \A i \in 0..(bytes - 1) : MadeOfSamples(words[i + 1], i, C5_SampleAt)
        /\ (~faulty /\ ~Done /\ ip \in {3, 4, 5}
               => DataOut = BitOfByte(orig[bytes + 1], 7 - bits))

\* The second word of [0xA5, 0x80] is at its last sample: 7 bits are in read_byte,
\* the first word is replaced, the second still holds 0x80.
C5_Witness ==
    /\ engine = "full" /\ op = "transfer_in_place" /\ pc = "loop" /\ din = "c4"
    /\ bytes = 1 /\ bits = 7 /\ ip = 5
    /\ orig = <<165, 128>> /\ words = <<196, 128>> /\ read_byte = 98

C7_Max(a, b) == IF a >= b THEN a ELSE b
C7_TransferAnyLengths ==
    (engine = "full" /\ op = "transfer") =>
        /\ result # "panic"
        /\ (Done => bytes = C7_Max(Len(orig), Len(origWrite)))

C9_Words ==
    CASE op = "write" -> Len(write)
      [] op = "read" -> Len(words)
      [] op \in {"transfer", "transfer_in_place"} /\ engine = "full" -> Len(words)
      [] OTHER -> 0
C9_CallsPerBit ==
    CASE op \in {"read", "write"} -> 3
      [] op = "transfer" -> 4
      [] op = "transfer_in_place" -> 5
      [] OTHER -> 0
C9_Count(e) == Cardinality({j \in 1..Len(log) : log[j] = e})
C10_RoundTrip ==
    (op = "read" /\ din = "replay" /\ Done) => words = write

\* [0x80, 0xA5] written, then read back into [0xFF, 0x00].
C10_Witness ==
    /\ op = "read" /\ din = "replay" /\ Done
    /\ write = <<128, 165>> /\ orig = <<255, 0>> /\ words = <<128, 165>>


\* C11 as claimed: against the slave that presents on data-in the level data-out
\* is at, transfer_in_place applied twice leaves what it leaves applied once, and
\* write(buffer) then read into the same storage leaves that same content (the
\* buffer as it was, by C11_EchoIdempotent).
C11_EchoAsWriteThenRead ==
    /\ (engine = "full" /\ op = "transfer_in_place" /\ din = "echo" /\ Done /\ held # <<>>)
           => words = held[1]
    /\ (op = "read" /\ din = "echo" /\ Done /\ write # <<>> /\ orig = write)
           => words = write

\* C11, amended: against that slave transfer_in_place leaves the buffer as it was,
\* so twice is as once; write(buffer) then read into the same storage leaves the
\* same content against the slave that replays what it latched during the write,
\* while against the echoing slave the read fills every bit with the last bit
\* written (read does not drive data-out).
C11_LastBitBytes(w) ==
    [i \in 1..Len(w) |-> IF BitOfByte(w[Len(w)], 0) THEN 255 ELSE 0]
C11_EchoIdempotent ==
    /\ (engine = "full" /\ op = "transfer_in_place" /\ din = "echo" /\ Done)
           => /\ words = orig
              /\ (held # <<>> => words = held[1])
    /\ (op = "read" /\ din = "replay" /\ Done /\ orig = write) => words = orig
    /\ (op = "read" /\ din = "echo" /\ Done /\ write # <<>> /\ orig = write)
           => words = C11_LastBitBytes(write)

\* The second of two transfer_in_place calls on [0x80, 0xA5] against the echoing
\* slave has run to its end.
C11_Witness ==
    /\ engine = "full" /\ op = "transfer_in_place" /\ din = "echo" /\ Done
    /\ held = <<(<<128, 165>>)>> /\ words = <<128, 165>> /\ Len(log) = 80


\* The drives of the data line and the clock pulses begun, as logged.
C12_IsDrive(e) == e \in {"data_0", "data_1", "data_high"}
C12_Drives == SelectSeq(log, C12_IsDrive)
C12_WriteA5Done == engine = "full" /\ op = "write" /\ Done /\ origWrite = <<165>>

\* C12 as claimed: write([0xA5]) on the full-duplex engine makes exactly 8 clock
\* pulses and drives data-out high, low, high, low, high, high, low, high.
C12_WriteA5AsClaimed ==
    C12_WriteA5Done =>
        /\ C9_Count("sck_low") = 8 /\ C9_Count("sck_high") = 8
        /\ C12_Drives = <<"data_1", "data_0", "data_1", "data_0",
                          "data_1", "data_1", "data_0", "data_1">>

\* C12, amended: write([0xA5]) makes exactly 8 clock pulses and drives data-out,
\* one level per pulse, high, low, high, low, low, high, low, high (0xA5 is
\* 10100101); on working pins these are the levels at the 8 rising edges.
C12_WriteA5 ==
    C12_WriteA5Done =>
        /\ C9_Count("sck_low") = 8 /\ C9_Count("sck_high") = 8
        /\ C12_Drives = <<"data_1", "data_0", "data_1", "data_0",
                          "data_0", "data_1", "data_0", "data_1">>
        /\ (~faulty => slaveRec = <<TRUE, FALSE, TRUE, FALSE, FALSE, TRUE, FALSE, TRUE>>)

\* write([0xA5]) has run to its end on working full-duplex pins.
C12_Witness == C12_WriteA5Done /\ ~faulty /\ Len(log) = 24 /\ mosi /\ sck


\* C13 as claimed: on the half-duplex engine, whenever no call is running (after
\* new() and after any sequence of calls) the bus drives the shared data line high.
C13_IdleDataHigh ==
    (engine = "half" /\ ~faulty /\ pc = "idle") => sda

\* C13, amended: the half-duplex bus drives the shared line high at the start of
\* every read; on working pins the line is high through the read and after it,
\* until the next write.  It is low only while nothing has driven it since new()
\* left it as passed in, during a write, or after a write whose last bit was 0.
C13_DataHighFromRead ==
    (engine = "half" /\ ~faulty /\ pc \in {"loop", "idle"}) =>
        /\ (op = "read" => sda)
        /\ (~sda => left # "H")
        /\ (~sda /\ left = "any" => op \in {"new", "write"} \/ ~Sends(op, orig, origWrite))

\* A half-duplex read right after write([0xA5, 0x80]), which left the line low, has
\* run to its end with the line high.
C13_Witness ==
    /\ engine = "half" /\ ~faulty /\ op = "read" /\ Done /\ din = "replay"
    /\ write = <<165, 128>> /\ words = <<165, 128>> /\ sda


\* C14: clock discipline.  In every operation of either engine each set-low of the
\* clock is immediately followed by its set-high, with no drive and no sample between
\* the two edges, and each set-high closes such a pulse; a read, write, equal-length
\* transfer or transfer_in_place over n words has made exactly 8*n pulses at its end
\* (n = 0 for the half-duplex transfer and transfer_in_place); flush and an operation
\* on no word make no clock call.
C14_ClockEntries == {"sck_low", "sck_high"}
C15_InPlaceAsTransfer ==
    (engine = "full" /\ op = "transfer_in_place" /\ Done) =>
        /\ Len(log) = Len(TransferSteps) * 8 * Len(orig)
        /\ \A p \in 0..(8 * Len(orig) - 1) :
              /\ log[4 * p + 1] = DataEntry(MsbFirstBit(orig, p))
              /\ log[4 * p + 2] = "sck_low"
              /\ log[4 * p + 3] = "sck_high"
              /\ log[4 * p + 4] \in SampleEntries


\* C16: a half-duplex read drives the shared line high exactly once, as its first pin
\* call and before any clock pulse, and never drives it again; after that drive its
\* calls are those of the full-duplex read of the same length, per bit clock low,
\* clock high, one sample (of the shared line).  A half-duplex write never samples,
\* so no operation both drives and samples the line within one bit.
C16_ReadCallAt(j) ==
    LET s == ReadSteps[((j - 1) % Len(ReadSteps)) + 1]
    IN  IF s = "sample" THEN log[j + C3_Off] \in SampleEntries ELSE log[j + C3_Off] = s
C16_HalfReadReleasesOnce ==
    /\ (op = "read" /\ pc = "pre") => log = <<>>
    /\ (op = "read" /\ pc = "loop") =>
          /\ Len(log) >= C3_Off
          /\ engine = "half" => log[1] = "data_high"
          /\ \A j \in 1..(Len(log) - C3_Off) : C16_ReadCallAt(j)
          /\ Done => Len(log) = C3_Off + Len(ReadSteps) * 8 * Len(words)
    /\ (engine = "half" /\ op = "write") =>
          \A j \in 1..Len(log) : log[j] \notin SampleEntries
    /\ engine = "half" =>
          \A j \in 1..Len(log) :
              (C12_IsDrive(log[j]) /\ j < Len(log)) => log[j + 1] = "sck_low"

\* A half-duplex read of two words is at its end: one drive, then 16 pulses each
\* followed by its sample.
C16_Witness ==
    /\ engine = "half" /\ op = "read" /\ Done /\ Len(words) = 2
    /\ Len(log) = 49 /\ log[1] = "data_high" /\ C9_Count("data_high") = 1


\* C17: a failed sample counts as not high.  In read (both engines), transfer and
\* transfer_in_place, each of the 8 samples of a completed word i was made, and bit
\* 7-k of the received byte i is 1 exactly when the sample of pulse 8i+k returned
\* high: it is 0 when is_high() failed, as when it returned low, and the other bits
\* follow their own samples.  The operation goes on to its last word and returns
\* Ok, without an error or a panic.
C17_Receives ==
    op = "read" \/ (engine = "full" /\ op \in {"transfer", "transfer_in_place"})
C17_SampleAt(p) ==
    CASE op = "read" -> C3_SampleAt(p)
      [] op = "transfer" -> C4_SampleAt(p)
      [] OTHER -> C5_SampleAt(p)
C17_FailedSampleIsLow ==
    C17_Receives =>
        /\ pc = "loop" =>
              /\ result = "none"
              /\ \A i \in 0..(bytes - 1) : \A k \in 0..7 :
                    LET e == log[C17_SampleAt(8 * i + k)]
                    IN  /\ e \in SampleEntries
                        /\ e = "in_E" => ~BitOfByte(words[i + 1], 7 - k)
                        /\ e = "in_L" => ~BitOfByte(words[i + 1], 7 - k)
                        /\ e = "in_H" => BitOfByte(words[i + 1], 7 - k)
              /\ Done => bytes = Len(words)
        /\ pc = "idle" => result = "Ok"
        /\ pc = "aborted" => op = "transfer" /\ log = <<>>

\* A half-duplex read of two words is at its end against an input that failed at
\* pulses 2, 7, 10 and 15 and was high at the others: both bytes are 0xDE.
C17_Witness ==
    /\ engine = "half" /\ op = "read" /\ Done /\ din = "err" /\ words = <<222, 222>>
    /\ log[C3_SampleAt(2)] = "in_E" /\ log[C3_SampleAt(15)] = "in_E"
    /\ log[C3_SampleAt(3)] = "in_H"


\* C18: the full-duplex read never drives data-out: no step of a read, from its
\* call to its return, changes the level of data-out, whatever the buffer and the
\* input; no step of a flush changes a pin, makes a pin call or touches a buffer.
C18_ReadKeepsDataOut ==
    [][ /\ (engine = "full" /\ op' = "read") => mosi' = mosi
        /\ op' = "flush" =>
              /\ UNCHANGED <<sck, mosi, sda>>
              /\ log' = <<>> /\ words' = <<>> /\ read_byte' = read_byte
      ]_vars

\* A full-duplex read of two words is at its end with data-out still at the low
\* level the preceding write left.
C18_Witness ==
    /\ engine = "full" /\ ~faulty /\ op = "read" /\ Done /\ din = "ramp"
    /\ words = <<0, 255>> /\ left = "L" /\ ~mosi


----------------------------------------------------------------------------
(* The bit loops over every 8-bit value *)

\* A bus after new(), on working pins, that has just been called with one word of
\* any value b in 0..255: read(&mut [b]), write(&[b]), transfer_in_place(&mut [b])
\* on either engine where it has a body, transfer(&mut [c], &[b]) and
\* transfer(&mut [b], &[c]) on the full-duplex one.
InitBytes ==
    \E e \in Engines, o \in BusOps, b \in 0..(Modulus - 1), c \in RBytes,
       d \in {"c4", "err"}, swap \in BOOLEAN, m \in BOOLEAN :
        /\ e = "half" => o \in {"read", "write"}
        /\ (o # "transfer" => c = 0 /\ ~swap)
        /\ (o = "write" => d = "c4")
        /\ engine = e
        /\ faulty = FALSE
        /\ sck = TRUE
        /\ mosi = (e = "full" /\ m)
        /\ sda = (e = "half" /\ m)
        /\ pc = (IF o = "read" THEN ReadEntry(e) ELSE "loop")
        /\ op = o
        /\ words = (CASE o = "write" -> <<>>
                      [] o = "transfer" -> IF swap THEN <<b>> ELSE <<c>>
                      [] OTHER -> <<b>>)
        /\ write = (CASE o = "write" -> <<b>>
                      [] o = "transfer" -> IF swap THEN <<c>> ELSE <<b>>
                      [] OTHER -> <<>>)
        /\ orig = words
        /\ origWrite = write
        /\ din = (IF o = "write" THEN "none" ELSE d)
        /\ bytes = 0
        /\ bits = 0
        /\ ip = 1
        /\ read_byte = 0
        /\ result = "none"
        /\ log = <<>>
        /\ slaveRec = <<>>
        /\ held = <<>>
        /\ left = "any"

\* The steps of the call to its return.
NextBytes ==
    \/ ReadSetHigh
    \/ SckLow
    \/ SckHigh
    \/ SetState
    \/ SetHigh
    \/ Sample
    \/ Return

SpecBytes == InitBytes /\ [][NextBytes]_vars

\* C19: no arithmetic overflow, for every 8-bit value and every sampled level.  At
\* each shift-accumulate of read, transfer and transfer_in_place the shift by 1
\* discards only the top bit, leaves the low bit 0, and adding 1 stays within 255;
\* at each drive of write, transfer and transfer_in_place (word << k) & 0x80, k in
\* 0..7, is bit 7-k of the word; no call panics.
C19_Accumulator == IF UsesReadByte(op) THEN read_byte ELSE words[bytes + 1]
C19_Outgoing == IF op = "transfer_in_place" THEN words[bytes + 1] ELSE write[bytes + 1]
C19_NoOverflow ==
    /\ pc # "aborted" /\ result # "panic"
    /\ bits \in 0..(Width - 1)
    /\ CurStep = "sample" =>
          /\ C19_Accumulator \in 0..(Modulus - 1)
          /\ Shifted(C19_Accumulator) = 2 * (C19_Accumulator % Mask)
          /\ ~BitOfByte(Shifted(C19_Accumulator), 0)
          /\ ~AddOverflows(Shifted(C19_Accumulator))
          /\ Accumulate(C19_Accumulator, SampleResult) \in 0..(Modulus - 1)
    /\ CurStep = "set_state" =>
          /\ C19_Outgoing \in 0..(Modulus - 1)
          /\ \A k \in 0..(Width - 1) :
                OutBit(C19_Outgoing, k) = BitOfByte(C19_Outgoing, (Width - 1) - k)

\* read(&mut [0xFF]) is at its first sample, 0xFF still in the byte: the shift is
\* about to discard a top bit that is set, and the sample to add 1 to 0xFE.
C19_Witness ==
    /\ engine = "full" /\ op = "read" /\ din = "err" /\ orig = <<255>>
    /\ CurStep = "sample" /\ bits = 0 /\ words[1] = 255 /\ Shifted(words[1]) = 254
    /\ SampleResult = "H"


\* C20: the level an operation leaves on the data line.  On working pins, at the
\* end of a non-empty write (either engine), equal-length non-empty full-duplex
\* transfer or non-empty transfer_in_place, data-out (sda on the half-duplex engine)
\* is at the least significant bit of the original value of the last outgoing word;
\* the line keeps the level left behind through every following flush, half-duplex
\* transfer and transfer_in_place, full-duplex read and call on no word, until the
\* next call that drives it.
C20_LastOutgoing ==
    IF op = "transfer_in_place" THEN orig[Len(orig)] ELSE origWrite[Len(origWrite)]
C20_LevelLeft ==
    ~faulty =>
        /\ (Done /\ op # "read" /\ Sends(op, orig, origWrite)) =>
              DataOut = BitOfByte(C20_LastOutgoing, 0)
        /\ left # "any" => DataOut = (left = "H")
        /\ (pc = "idle" /\ op = "write" /\ origWrite # <<>>) =>
              /\ DataOut = BitOfByte(C20_LastOutgoing, 0)
              /\ left = LevelName(DataOut)

\* After a half-duplex write ending in a 0 bit, a flush-like call (the half-duplex
\* transfer_in_place) has returned and the line is still low.
C20_Witness ==
    /\ engine = "half" /\ ~faulty /\ op = "transfer_in_place" /\ pc = "idle"
    /\ left = "L" /\ ~sda

====
